---- MODULE Spec2Model ----
(***************************************************************************)
(* Model of the "Overview of Ray" notebook: the regression benchmark that  *)
(* trains n_models random forests first sequentially (run_sequential) and  *)
(* then as Ray tasks (run_parallel), and selects the best model with       *)
(* min(mse_scores, key=itemgetter(1)).                                     *)
(*                                                                         *)
(* The notebook's cells are executed top to bottom; pc names the cell (or  *)
(* the control point inside a cell) that runs next.  A cell that raises    *)
(* records its exception in error, leaves its assignment undone, and the   *)
(* next cell can still be run, as in an interactive kernel.                *)
(*                                                                         *)
(* Scores are mean squared errors scaled by 10^4 (0.2983 is 2983).         *)
(***************************************************************************)
EXTENDS Integers, Sequences, FiniteSets

\* ---- bounds of the model ----
MaxModels == 3      \* n_models ranges over 0..MaxModels in Spec
MaxScore == 1       \* scores of the executor range over 0..MaxScore in Spec
NumCPUs == 2        \* CPUs the Ray runtime detects: tasks running at once
MaxLen == 3         \* longest ResultSet drawn in SpecSelector
MaxInits == 2       \* runs of the initialization cell in SpecRerun

\* ---- program constants ----
NUM_MODELS == 20    \* NUM_MODELS = 20

VARIABLES
  n_models,      \* the argument n_models of both runners
  mse,           \* mean_squared_error of the model with n_estimators trees
  failing,       \* the n_estimators for which train_and_score_model raises
  pc,            \* the cell, or control point in a cell, that runs next
  binding,       \* what the name train_and_score_model denotes
  ray_up,        \* the Ray runtime is initialized
  ray_session,   \* the number of runtimes ray.init() has started
  object_store,  \* the objects put in the object store, by reference
  data_refs,     \* <<X_train_ref, X_test_ref, y_train_ref, y_test_ref>>
  seq_calls,     \* the calls of the local train_and_score_model, in order
  seq_acc,       \* the list the comprehension of run_sequential builds
  tasks,         \* the Ray tasks, by the reference of their result
  results_ref,   \* the list results_ref of run_parallel
  finished,      \* the tasks' references in the order the tasks finished
  seq_ret,       \* what run_sequential returned
  par_ret,       \* what run_parallel returned
  mse_scores,    \* the global mse_scores
  mse_by,        \* the cell whose assignment mse_scores holds
  best,          \* the global best
  error          \* the exception each cell ended with

vars == <<n_models, mse, failing, pc, binding, ray_up, ray_session, object_store,
          data_refs, seq_calls, seq_acc, tasks, results_ref, finished,
          seq_ret, par_ret, mse_scores, mse_by, best, error>>

inputVars == <<n_models, mse, failing>>
rayVars == <<ray_up, ray_session, object_store, data_refs>>
seqVars == <<seq_calls, seq_acc, seq_ret>>
parVars == <<tasks, results_ref, finished, par_ret>>

\* ---- values ----
Unbound == [bound |-> FALSE, val |-> <<>>]
Bound(v) == [bound |-> TRUE, val |-> v]

NoError == <<"none", -1>>
ErrCells == {"run_seq", "analyze_seq", "ray_init", "run_par", "analyze_par"}

Range(s) == {s[i] : i \in 1..Len(s)}

\* ---- the JobSpec generator: n_estimators=8 + 4 * j ----
SeqParam(j) == 8 + 4 * j

ParParamStep(j) == 8 + 2 * j

ParParam(j) == 8 + 4 * j

Params(n) == {8 + 4 * j : j \in 0..(n - 1)}

\* ---- the executor: return n_estimators, score ----
Score(n) == IF n \in DOMAIN mse THEN mse[n] ELSE 0

train_and_score_model(n) == <<n, Score(n)>>

remote_train_and_score_swapped(n) == <<Score(n), n>>

remote_train_and_score_model(n) == <<n, Score(n)>>

\* ---- ray.get(results_ref) ----
Running == {h \in 1..Len(tasks) : tasks[h].status = "running"}

AnyResolved(refs) == refs = <<>> \/ \E i \in 1..Len(refs) : tasks[refs[i]].status = "ready"

AllFinished(refs) ==
  \A i \in 1..Len(refs) : tasks[refs[i]].status \in {"ready", "failed"}

AllResolved(refs) == \A i \in 1..Len(refs) : tasks[refs[i]].status = "ready"

FailedAt(refs) == {i \in 1..Len(refs) : tasks[refs[i]].status = "failed"}

RayGetCompletionOrder(refs) ==
  LET done == SelectSeq(finished, LAMBDA h : h \in Range(refs))
  IN  [i \in 1..Len(refs) |-> IF i <= Len(done) THEN tasks[done[i]].result ELSE <<>>]

RayGet(refs) == [i \in 1..Len(refs) |-> tasks[refs[i]].result]

\* ---- min(mse_scores, key=itemgetter(1)) ----
RECURSIVE MinScanLast(_, _, _)
MinScanLast(s, i, m) ==
  IF i > Len(s) THEN m
  ELSE MinScanLast(s, i + 1, IF s[i][2] <= m[2] THEN s[i] ELSE m)

RECURSIVE MinScanTuple(_, _, _)
MinScanTuple(s, i, m) ==
  IF i > Len(s) THEN m
  ELSE MinScanTuple(s, i + 1,
         IF s[i][1] < m[1] \/ (s[i][1] = m[1] /\ s[i][2] < m[2]) THEN s[i] ELSE m)

RECURSIVE MinScan(_, _, _)
MinScan(s, i, m) ==
  IF i > Len(s) THEN m
  ELSE MinScan(s, i + 1, IF s[i][2] < m[2] THEN s[i] ELSE m)

MinByScore(s) == MinScan(s, 2, s[1])

\* ---- the initial state: the kernel after the dataset cells ----
InitKernel ==
  /\ ray_up = FALSE
  /\ ray_session = 0
  /\ object_store = <<>>
  /\ data_refs = <<>>
  /\ seq_calls = <<>>
  /\ seq_acc = <<>>
  /\ tasks = <<>>
  /\ results_ref = <<>>
  /\ finished = <<>>
  /\ seq_ret = Unbound
  /\ par_ret = Unbound
  /\ best = Unbound
  /\ error = [c \in ErrCells |-> NoError]

\* A job that raises has no score: mse is drawn for the other parameters only.
Init ==
  /\ n_models \in 0..MaxModels
  /\ failing \in SUBSET Params(n_models)
  /\ mse \in [Params(n_models) \ failing -> 0..MaxScore]
  /\ pc = "def_local"
  /\ binding = "unbound"
  /\ mse_scores = Unbound
  /\ mse_by = "none"
  /\ InitKernel

\* ---- cell: def train_and_score_model ----
DefLocalDecorated ==
  /\ pc = "def_local"
  /\ binding' = "remote"
  /\ pc' = "run_seq"
  /\ UNCHANGED <<inputVars, rayVars, seqVars, parVars, mse_scores, mse_by, best, error>>

DefLocal ==
  /\ pc = "def_local"
  /\ binding' = "local"
  /\ pc' = "run_seq"
  /\ UNCHANGED <<inputVars, rayVars, seqVars, parVars, mse_scores, mse_by, best, error>>

\* ---- cell: mse_scores = run_sequential(n_models=NUM_MODELS) ----
SeqCallEager ==
  /\ pc = "run_seq"
  /\ binding = "local"
  /\ Len(seq_calls) < n_models
  /\ seq_calls' = Append(seq_calls,
       [n_estimators |-> SeqParam(Len(seq_calls)), status |-> "running"])
  /\ UNCHANGED <<inputVars, pc, binding, rayVars, seq_acc, seq_ret, parVars,
                 mse_scores, mse_by, best, error>>

SeqCall ==
  /\ pc = "run_seq"
  /\ binding = "local"
  /\ Len(seq_calls) < n_models
  /\ \A i \in 1..Len(seq_calls) : seq_calls[i].status = "returned"
  /\ seq_calls' = Append(seq_calls,
       [n_estimators |-> SeqParam(Len(seq_calls)), status |-> "running"])
  /\ UNCHANGED <<inputVars, pc, binding, rayVars, seq_acc, seq_ret, parVars,
                 mse_scores, mse_by, best, error>>

SeqJobReturn ==
  /\ pc = "run_seq"
  /\ \E i \in 1..Len(seq_calls) :
       /\ seq_calls[i].status = "running"
       /\ seq_calls[i].n_estimators \notin failing
       /\ seq_calls' = [seq_calls EXCEPT ![i].status = "returned"]
       /\ seq_acc' = Append(seq_acc, train_and_score_model(seq_calls[i].n_estimators))
  /\ UNCHANGED <<inputVars, pc, binding, rayVars, seq_ret, parVars,
                 mse_scores, mse_by, best, error>>

SeqJobRaisePartial ==
  /\ pc = "run_seq"
  /\ \E i \in 1..Len(seq_calls) :
       /\ seq_calls[i].status = "running"
       /\ seq_calls[i].n_estimators \in failing
       /\ seq_calls' = [seq_calls EXCEPT ![i].status = "raised"]
       /\ error' = [error EXCEPT !["run_seq"] =
                      <<"JobExecutionFailure", seq_calls[i].n_estimators>>]
  /\ seq_ret' = Bound(seq_acc)
  /\ mse_scores' = Bound(seq_acc)
  /\ mse_by' = "run_seq"
  /\ pc' = "analyze_seq"
  /\ UNCHANGED <<inputVars, binding, rayVars, seq_acc, parVars, best>>

SeqJobRaise ==
  /\ pc = "run_seq"
  /\ \E i \in 1..Len(seq_calls) :
       /\ seq_calls[i].status = "running"
       /\ seq_calls[i].n_estimators \in failing
       /\ seq_calls' = [seq_calls EXCEPT ![i].status = "raised"]
       /\ error' = [error EXCEPT !["run_seq"] =
                      <<"JobExecutionFailure", seq_calls[i].n_estimators>>]
  /\ pc' = "analyze_seq"
  /\ UNCHANGED <<inputVars, binding, rayVars, seq_acc, seq_ret, parVars,
                 mse_scores, mse_by, best>>

SeqReturnEarly ==
  /\ pc = "run_seq"
  /\ Len(seq_calls) >= n_models - 1
  /\ \A i \in 1..Len(seq_calls) : seq_calls[i].status = "returned"
  /\ seq_ret' = Bound(seq_acc)
  /\ mse_scores' = Bound(seq_acc)
  /\ mse_by' = "run_seq"
  /\ pc' = "analyze_seq"
  /\ UNCHANGED <<inputVars, binding, rayVars, seq_calls, seq_acc, parVars,
                 best, error>>

SeqReturn ==
  /\ pc = "run_seq"
  /\ Len(seq_calls) >= n_models
  /\ \A i \in 1..Len(seq_calls) : seq_calls[i].status = "returned"
  /\ seq_ret' = Bound(seq_acc)
  /\ mse_scores' = Bound(seq_acc)
  /\ mse_by' = "run_seq"
  /\ pc' = "analyze_seq"
  /\ UNCHANGED <<inputVars, binding, rayVars, seq_calls, seq_acc, parVars,
                 best, error>>

\* ---- cell: best = min(mse_scores, key=itemgetter(1)) ----
AnalyzeDefault(cell, next) ==
  /\ pc = cell
  /\ pc' = next
  /\ IF ~mse_scores.bound
       THEN /\ error' = [error EXCEPT ![cell] = <<"NameError", -1>>]
            /\ UNCHANGED best
     ELSE IF mse_scores.val = <<>>
       THEN /\ best' = Bound(<<>>)
            /\ UNCHANGED error
     ELSE /\ best' = Bound(MinByScore(mse_scores.val))
          /\ UNCHANGED error
  /\ UNCHANGED <<inputVars, binding, rayVars, seqVars, parVars, mse_scores, mse_by>>

Analyze(cell, next) ==
  /\ pc = cell
  /\ pc' = next
  /\ IF ~mse_scores.bound
       THEN /\ error' = [error EXCEPT ![cell] = <<"NameError", -1>>]
            /\ UNCHANGED best
     ELSE IF mse_scores.val = <<>>
       THEN /\ error' = [error EXCEPT ![cell] = <<"ValueError", -1>>]
            /\ UNCHANGED best
     ELSE /\ best' = Bound(MinByScore(mse_scores.val))
          /\ UNCHANGED error
  /\ UNCHANGED <<inputVars, binding, rayVars, seqVars, parVars, mse_scores, mse_by>>

AnalyzeSeq == Analyze("analyze_seq", "ray_init")

AnalyzePar == Analyze("analyze_par", "shutdown")

\* ---- cell: if ray.is_initialized: ray.shutdown(); ray.init() ----
\* ray.is_initialized is the function object, always truthy: ray.shutdown()
\* runs first (a no-op on a runtime that is down), then ray.init() starts one.
\* ray.init() on a runtime that is up raises RuntimeError and starts nothing.
IsInitializedCalledNegated(up) == ~up

IsInitializedGuard(up) == TRUE

InitCell(next) ==
  /\ pc' = next
  /\ LET shut == IsInitializedGuard(ray_up)
         up == IF shut THEN FALSE ELSE ray_up
     IN  /\ object_store' = IF shut THEN <<>> ELSE object_store
         /\ IF up
              THEN /\ error' = [error EXCEPT !["ray_init"] = <<"RuntimeError", -1>>]
                   /\ UNCHANGED <<ray_up, ray_session>>
              ELSE /\ ray_up' = TRUE
                   /\ ray_session' = ray_session + 1
                   /\ UNCHANGED error
  /\ UNCHANGED <<inputVars, binding, data_refs, seqVars, parVars,
                 mse_scores, mse_by, best>>

RayInit ==
  /\ pc = "ray_init"
  /\ InitCell("put")

\* the initialization cell is run again before the next cell
RayInitAgain ==
  /\ pc = "put"
  /\ ray_session < MaxInits
  /\ InitCell("put")

\* ---- cell: X_train_ref = ray.put(X_train) ... y_test_ref = ray.put(y_test) ----
PutData ==
  /\ pc = "put"
  /\ ray_up
  /\ object_store' = object_store \o <<"X_train", "X_test", "y_train", "y_test">>
  /\ data_refs' = [i \in 1..4 |-> Len(object_store) + i]
  /\ pc' = "def_remote"
  /\ UNCHANGED <<inputVars, binding, ray_up, ray_session, seqVars, parVars,
                 mse_scores, mse_by, best, error>>

\* ---- cell: @ray.remote def train_and_score_model ----
DefRemote ==
  /\ pc = "def_remote"
  /\ binding' = "remote"
  /\ pc' = "run_par"
  /\ UNCHANGED <<inputVars, rayVars, seqVars, parVars, mse_scores, mse_by, best, error>>

\* ---- cell: mse_scores = run_parallel(n_models=NUM_MODELS) ----
SubmitBlocking ==
  /\ pc = "run_par"
  /\ binding = "remote"
  /\ ray_up
  /\ Len(results_ref) < n_models
  /\ \A h \in 1..Len(tasks) : tasks[h].status \in {"ready", "failed"}
  /\ tasks' = Append(tasks, [n_estimators |-> ParParam(Len(results_ref)),
                             args |-> data_refs,
                             status |-> "pending",
                             attempts |-> 0,
                             result |-> <<>>])
  /\ results_ref' = Append(results_ref, Len(tasks) + 1)
  /\ UNCHANGED <<inputVars, pc, binding, rayVars, seqVars, finished, par_ret,
                 mse_scores, mse_by, best, error>>

SubmitWithCopy ==
  /\ pc = "run_par"
  /\ binding = "remote"
  /\ ray_up
  /\ Len(results_ref) < n_models
  /\ object_store' = object_store \o <<"X_train", "X_test", "y_train", "y_test">>
  /\ tasks' = Append(tasks, [n_estimators |-> ParParam(Len(results_ref)),
                             args |-> [i \in 1..4 |-> Len(object_store) + i],
                             status |-> "pending",
                             attempts |-> 0,
                             result |-> <<>>])
  /\ results_ref' = Append(results_ref, Len(tasks) + 1)
  /\ UNCHANGED <<inputVars, pc, binding, ray_up, ray_session, data_refs, seqVars, finished, par_ret,
                 mse_scores, mse_by, best, error>>

Submit ==
  /\ pc = "run_par"
  /\ binding = "remote"
  /\ ray_up
  /\ Len(results_ref) < n_models
  /\ tasks' = Append(tasks, [n_estimators |-> ParParam(Len(results_ref)),
                             args |-> data_refs,
                             status |-> "pending",
                             attempts |-> 0,
                             result |-> <<>>])
  /\ results_ref' = Append(results_ref, Len(tasks) + 1)
  /\ UNCHANGED <<inputVars, pc, binding, rayVars, seqVars, finished, par_ret,
                 mse_scores, mse_by, best, error>>

RayGetCall ==
  /\ pc = "run_par"
  /\ Len(results_ref) >= n_models
  /\ pc' = "get"
  /\ UNCHANGED <<inputVars, binding, rayVars, seqVars, parVars, mse_scores, mse_by, best, error>>

GetReturnNoAssign ==
  /\ pc = "get"
  /\ AllResolved(results_ref)
  /\ par_ret' = Bound(RayGet(results_ref))
  /\ pc' = "analyze_par"
  /\ UNCHANGED <<inputVars, binding, rayVars, seqVars, tasks, results_ref, finished,
                 mse_scores, mse_by, best, error>>

GetReturn ==
  /\ pc = "get"
  /\ AllResolved(results_ref)
  /\ par_ret' = Bound(RayGet(results_ref))
  /\ mse_scores' = Bound(RayGet(results_ref))
  /\ mse_by' = "run_par"
  /\ pc' = "analyze_par"
  /\ UNCHANGED <<inputVars, binding, rayVars, seqVars, tasks, results_ref, finished,
                 best, error>>

\* ray.get raises the error of a failed task.  It can do so as soon as one
\* handle of the list has failed, or later: the step is enabled from then on,
\* and raises the error of the failed handle of lowest index at that moment;
\* the other tasks keep running.
GetRaiseBlocked ==
  /\ pc = "get"
  /\ FailedAt(results_ref) # {}
  /\ AllResolved(results_ref)
  /\ pc' = "analyze_par"
  /\ UNCHANGED <<inputVars, binding, rayVars, seqVars, parVars, mse_scores, mse_by, best, error>>

GetRaise ==
  /\ pc = "get"
  /\ FailedAt(results_ref) # {}
  /\ LET k == CHOOSE i \in FailedAt(results_ref) : \A m \in FailedAt(results_ref) : i <= m
     IN  error' = [error EXCEPT !["run_par"] =
                     <<"JobExecutionFailure", tasks[results_ref[k]].n_estimators>>]
  /\ pc' = "analyze_par"
  /\ UNCHANGED <<inputVars, binding, rayVars, seqVars, parVars, mse_scores, mse_by, best>>

\* ---- the Ray workers: a pending task starts when a CPU is free, in any
\* ---- order; a running task returns its pair or raises ----
TaskStart(h) ==
  /\ ray_up
  /\ tasks[h].status = "pending"
  /\ Cardinality(Running) < NumCPUs
  /\ tasks' = [tasks EXCEPT ![h].status = "running",
                            ![h].attempts = tasks[h].attempts + 1]
  /\ UNCHANGED <<inputVars, pc, binding, rayVars, seqVars, results_ref, finished,
                 par_ret, mse_scores, mse_by, best, error>>

TaskFinish(h) ==
  /\ ray_up
  /\ tasks[h].status = "running"
  /\ tasks[h].n_estimators \notin failing
  /\ tasks' = [tasks EXCEPT ![h].status = "ready",
                            ![h].result = remote_train_and_score_model(tasks[h].n_estimators)]
  /\ finished' = Append(finished, h)
  /\ UNCHANGED <<inputVars, pc, binding, rayVars, seqVars, results_ref,
                 par_ret, mse_scores, mse_by, best, error>>

TaskFailRetry(h) ==
  /\ ray_up
  /\ tasks[h].status = "running"
  /\ tasks[h].n_estimators \in failing
  /\ tasks' = [tasks EXCEPT ![h].status = "pending"]
  /\ UNCHANGED <<inputVars, pc, binding, rayVars, seqVars, results_ref, finished,
                 par_ret, mse_scores, mse_by, best, error>>

\* An exception of the task's function is not retried: the task is failed.
TaskFail(h) ==
  /\ ray_up
  /\ tasks[h].status = "running"
  /\ tasks[h].n_estimators \in failing
  /\ tasks' = [tasks EXCEPT ![h].status = "failed"]
  /\ finished' = Append(finished, h)
  /\ UNCHANGED <<inputVars, pc, binding, rayVars, seqVars, results_ref,
                 par_ret, mse_scores, mse_by, best, error>>

\* ---- cell: ray.shutdown() ----
Shutdown ==
  /\ pc = "shutdown"
  /\ ray_up' = FALSE
  /\ pc' = "done"
  /\ UNCHANGED <<inputVars, binding, ray_session, object_store, data_refs, seqVars, parVars,
                 mse_scores, mse_by, best, error>>

Next ==
  \/ DefLocal
  \/ SeqCall
  \/ SeqJobReturn
  \/ SeqJobRaise
  \/ SeqReturn
  \/ AnalyzeSeq
  \/ RayInit
  \/ PutData
  \/ DefRemote
  \/ Submit
  \/ RayGetCall
  \/ GetReturn
  \/ GetRaise
  \/ \E h \in 1..Len(tasks) : TaskStart(h)
  \/ \E h \in 1..Len(tasks) : TaskFinish(h)
  \/ \E h \in 1..Len(tasks) : TaskFail(h)
  \/ AnalyzePar
  \/ Shutdown

Spec == Init /\ [][Next]_vars

\* ---- fairness: a cell that was started runs on, and the Ray workers keep
\* ---- starting pending tasks and finishing running ones; whether the next
\* ---- cell is run at all is up to the user ----
Fairness ==
  /\ WF_vars(SeqCall)
  /\ WF_vars(SeqJobReturn)
  /\ WF_vars(SeqJobRaise)
  /\ WF_vars(SeqReturn)
  /\ WF_vars(Submit)
  /\ WF_vars(RayGetCall)
  /\ WF_vars(GetReturn)
  /\ WF_vars(GetRaise)
  /\ WF_vars(\E h \in 1..Len(tasks) : TaskStart(h))
  /\ WF_vars(\E h \in 1..Len(tasks) : TaskFinish(h))
  /\ WF_vars(\E h \in 1..Len(tasks) : TaskFail(h))

\* Termination does not depend on the scores: they are fixed here.
InitFair ==
  /\ n_models \in 0..MaxModels
  /\ failing \in SUBSET Params(n_models)
  /\ mse = [n \in Params(n_models) \ failing |-> 0]
  /\ pc = "def_local"
  /\ binding = "unbound"
  /\ mse_scores = Unbound
  /\ mse_by = "none"
  /\ InitKernel

FairSpec == InitFair /\ [][Next]_vars /\ Fairness

\* ---- the notebook where the initialization cell can be run repeatedly ----
NextRerun == Next \/ RayInitAgain

SpecRerun == Init /\ [][NextRerun]_vars

\* ---- the notebook up to the blocking ray.get, for n_models up to NUM_MODELS:
\* ---- the workers are not scheduled, the executor never fails ----
InitGenerator ==
  /\ n_models \in 0..NUM_MODELS
  /\ mse = [n \in Params(n_models) |-> 0]
  /\ failing = {}
  /\ pc = "def_local"
  /\ binding = "unbound"
  /\ mse_scores = Unbound
  /\ mse_by = "none"
  /\ InitKernel

NextGenerator ==
  \/ DefLocal
  \/ SeqCall
  \/ SeqJobReturn
  \/ SeqReturn
  \/ AnalyzeSeq
  \/ RayInit
  \/ PutData
  \/ DefRemote
  \/ Submit
  \/ RayGetCall

SpecGenerator == InitGenerator /\ [][NextGenerator]_vars

\* ---- the analysis cell applied to any ResultSet of bounded length ----
SelectorParams == {8, 12, 16, 24}
SelectorScores == {2694, 2761, 2826, 2983}
ExampleResultSet == <<<<8, 2983>>, <<12, 2826>>, <<16, 2761>>, <<24, 2694>>>>

ResultSets(k) ==
  UNION {[1..m -> SelectorParams \X SelectorScores] : m \in 0..k}

InitSelector ==
  /\ n_models = 0
  /\ mse = [n \in Params(0) |-> 0]
  /\ failing = {}
  /\ pc = "analyze_seq"
  /\ binding = "local"
  /\ mse_scores \in {Bound(r) : r \in ResultSets(MaxLen) \cup {ExampleResultSet}}
  /\ mse_by = "run_seq"
  /\ InitKernel

NextSelector == AnalyzeSeq

SpecSelector == InitSelector /\ [][NextSelector]_vars

\* ======================= the claims =======================

\* C1: whenever run_sequential and run_parallel have both returned, on the
\* same data and the same deterministic executor, the two ResultSets are
\* equal element by element: same length, same order, same pair at every
\* index, whatever the order in which the tasks ran and finished.
C1_RunnersAgree ==
  (seq_ret.bound /\ par_ret.bound) =>
     /\ Len(seq_ret.val) = Len(par_ret.val)
     /\ \A i \in 1..Len(seq_ret.val) : seq_ret.val[i] = par_ret.val[i]

C1_Witness ==
  /\ seq_ret.bound
  /\ par_ret.bound
  /\ n_models >= 2
  /\ finished # results_ref
  /\ par_ret.val[1][2] # par_ret.val[2][2]

\* C2: the list run_parallel returns is in submission order: position j
\* holds the result of the job submitted j-th, the one with n_estimators
\* 8 + 4*j, whatever the order in which the tasks finished.
C2_SubmissionOrder ==
  par_ret.bound =>
     /\ Len(par_ret.val) = n_models
     /\ \A j \in 0..(n_models - 1) : par_ret.val[j + 1] = <<8 + 4 * j, mse[8 + 4 * j]>>

C2_Witness ==
  /\ par_ret.bound
  /\ n_models >= 2
  /\ finished[1] = results_ref[n_models]
  /\ mse[8] # mse[8 + 4 * (n_models - 1)]

\* C3: when no job fails both runners return, and the ResultSet each returns
\* has one element per JobSpec: its length is n_models and every parameter
\* 8 + 4*j, j < n_models, is echoed by exactly one element.
C3_ExactlyOneResult ==
  /\ failing = {} => (error["run_seq"] = NoError /\ error["run_par"] = NoError)
  /\ seq_ret.bound =>
       /\ Len(seq_ret.val) = n_models
       /\ \A j \in 0..(n_models - 1) :
            Cardinality({i \in 1..Len(seq_ret.val) : seq_ret.val[i][1] = 8 + 4 * j}) = 1
  /\ par_ret.bound =>
       /\ Len(par_ret.val) = n_models
       /\ \A j \in 0..(n_models - 1) :
            Cardinality({i \in 1..Len(par_ret.val) : par_ret.val[i][1] = 8 + 4 * j}) = 1

C3_Witness ==
  /\ failing = {}
  /\ n_models >= 3
  /\ seq_ret.bound
  /\ par_ret.bound
  /\ pc = "done"

\* C4: a submission of run_parallel never waits: while handles remain to be
\* created the next .remote call can be made whatever the state of the tasks
\* submitted before, and ray.get is called only when all n_models handles
\* exist.
C4_NonBlockingSubmit ==
  /\ (pc = "run_par" /\ Len(results_ref) < n_models) => ENABLED Submit
  /\ pc \in {"get", "analyze_par", "shutdown", "done"} => Len(results_ref) = n_models

C4_Witness ==
  /\ pc = "get"
  /\ n_models >= 2
  /\ Len(results_ref) = n_models
  /\ \A h \in 1..Len(tasks) : tasks[h].status = "pending"

\* C5: run_parallel returns only from the one ray.get on the whole list: the
\* step that produces its return value is taken at ray.get, with every one of
\* the n_models handles resolved, and yields the complete list at once.
C5_SingleBlockingPoint ==
  [][par_ret' # par_ret =>
       /\ pc = "get"
       /\ Len(results_ref) = n_models
       /\ \A i \in 1..Len(results_ref) : tasks[results_ref[i]].status = "ready"
       /\ par_ret'.bound
       /\ Len(par_ret'.val) = n_models
       /\ mse_scores' = par_ret']_vars

C5_Witness ==
  /\ pc = "get"
  /\ ~par_ret.bound
  /\ \E i \in 1..Len(results_ref) : tasks[results_ref[i]].status = "ready"
  /\ \E i \in 1..Len(results_ref) : tasks[results_ref[i]].status = "running"

\* C6: the j-th job of either runner gets n_estimators = 8 + 4*j; each runner
\* generates exactly n_models values, both the same sequence, and for
\* n_models = 20 the sequence is 8, 12, ..., 84.
C6_JobSpecs ==
  /\ \A i \in 1..Len(seq_calls) : seq_calls[i].n_estimators = 8 + 4 * (i - 1)
  /\ \A i \in 1..Len(results_ref) : tasks[results_ref[i]].n_estimators = 8 + 4 * (i - 1)
  /\ seq_ret.bound => Len(seq_calls) = n_models
  /\ pc = "get" =>
       /\ Len(results_ref) = n_models
       /\ Len(seq_calls) = n_models
       /\ \A i \in 1..n_models :
            seq_calls[i].n_estimators = tasks[results_ref[i]].n_estimators
       /\ n_models = 20 =>
            [i \in 1..n_models |-> tasks[results_ref[i]].n_estimators] =
              <<8, 12, 16, 20, 24, 28, 32, 36, 40, 44,
                48, 52, 56, 60, 64, 68, 72, 76, 80, 84>>

C6_Witness ==
  /\ pc = "get"
  /\ n_models = 20
  /\ Len(results_ref) = 20
  /\ tasks[results_ref[20]].n_estimators = 84

\* C7: with n_models = 0 both runners return the empty list and the executor
\* is never invoked, and the analysis cell on the empty list ends with an
\* error (min of an empty sequence) and binds no best.
C7_EmptyRun ==
  n_models = 0 =>
     /\ seq_calls = <<>>
     /\ tasks = <<>>
     /\ error["run_seq"] = NoError
     /\ error["run_par"] = NoError
     /\ seq_ret.bound => seq_ret.val = <<>>
     /\ par_ret.bound => par_ret.val = <<>>
     /\ pc \notin {"def_local", "run_seq"} => seq_ret.bound
     /\ pc \in {"analyze_par", "shutdown", "done"} => par_ret.bound
     /\ pc \notin {"def_local", "run_seq", "analyze_seq"} =>
          error["analyze_seq"] = <<"ValueError", -1>>
     /\ pc \in {"shutdown", "done"} => error["analyze_par"] = <<"ValueError", -1>>
     /\ ~best.bound

C7_Witness ==
  /\ n_models = 0
  /\ pc = "done"
  /\ par_ret = Bound(<<>>)
  /\ error["analyze_par"][1] = "ValueError"

\* C8: on a non-empty ResultSet the analysis cell binds best to an element of
\* the ResultSet whose score is at most the score of every element; on
\* [(8, 0.2983), (12, 0.2826), (16, 0.2761), (24, 0.2694)] it is (24, 0.2694).
C8_Minimum ==
  (pc = "ray_init" /\ mse_scores.bound /\ mse_scores.val # <<>>) =>
     /\ best.bound
     /\ \E i \in 1..Len(mse_scores.val) : best.val = mse_scores.val[i]
     /\ \A i \in 1..Len(mse_scores.val) : best.val[2] <= mse_scores.val[i][2]
     /\ mse_scores.val = <<<<8, 2983>>, <<12, 2826>>, <<16, 2761>>, <<24, 2694>>>>
          => best.val = <<24, 2694>>

C8_Witness ==
  /\ pc = "ray_init"
  /\ mse_scores.val = <<<<8, 2983>>, <<12, 2826>>, <<16, 2761>>, <<24, 2694>>>>
  /\ best = Bound(<<24, 2694>>)

\* C9: when several elements share the minimum score, best is the one at the
\* lowest index: every element before it has a strictly greater score, also
\* when a later element with the same score has a smaller n_estimators.
C9_FirstOccurrence ==
  (pc = "ray_init" /\ mse_scores.bound /\ mse_scores.val # <<>>) =>
     \E i \in 1..Len(mse_scores.val) :
        /\ best.val = mse_scores.val[i]
        /\ \A k \in 1..Len(mse_scores.val) : mse_scores.val[k][2] >= mse_scores.val[i][2]
        /\ \A k \in 1..(i - 1) : mse_scores.val[k][2] > mse_scores.val[i][2]

C9_Witness ==
  /\ pc = "ray_init"
  /\ mse_scores.val = <<<<24, 2694>>, <<8, 2694>>>>
  /\ best = Bound(<<24, 2694>>)

\* C10: run_sequential calls the executor in generation order, one call at a
\* time: at most one call is executing, call j+1 exists only when call j has
\* returned, no Ray task exists meanwhile, and the list returned has
\* n_models elements in the order of the JobSpecs.
C10_OneAtATime ==
  /\ Cardinality({i \in 1..Len(seq_calls) : seq_calls[i].status = "running"}) <= 1
  /\ \A i \in 2..Len(seq_calls) : seq_calls[i - 1].status = "returned"
  /\ \A i \in 1..Len(seq_calls) : seq_calls[i].n_estimators = 8 + 4 * (i - 1)
  /\ Len(seq_calls) <= n_models
  /\ pc = "run_seq" => (tasks = <<>> /\ ~ray_up)
  /\ seq_ret.bound =>
       /\ Len(seq_ret.val) = n_models
       /\ \A i \in 1..n_models : seq_ret.val[i] = <<8 + 4 * (i - 1), mse[8 + 4 * (i - 1)]>>

C10_Witness ==
  /\ pc = "run_seq"
  /\ Len(seq_calls) >= 2
  /\ seq_calls[Len(seq_calls)].status = "running"
  /\ Len(seq_acc) = Len(seq_calls) - 1

\* C11: when the executor fails for exactly one job k, run_parallel never
\* returns a list (neither a full one nor one without job k): the cell ends
\* with the failure of job k and assigns nothing to mse_scores.
C11_FailureSurfaced ==
  \A k \in failing :
     failing = {k} =>
        /\ ~par_ret.bound
        /\ pc \in {"analyze_par", "shutdown", "done"} =>
             error["run_par"] = <<"JobExecutionFailure", k>>

C11_Witness ==
  /\ failing = {12}
  /\ n_models = 3
  /\ pc = "analyze_par"
  /\ error["run_par"] = <<"JobExecutionFailure", 12>>
  /\ tasks[results_ref[1]].status = "ready"
  /\ tasks[results_ref[3]].status = "ready"

\* C12: once both runner cells have ended, they ended the same way: with no
\* error, or with the failure of the same job.
C12_SameFailure ==
  pc \in {"analyze_par", "shutdown", "done"} => error["run_par"] = error["run_seq"]

C14_RunToCompletion ==
  pc = "done" => \A h \in 1..Len(tasks) : tasks[h].status \in {"ready", "failed"}

\* C15: the four inputs are put in the object store once each, before any job
\* is dispatched; every task gets the same four references; and no step after
\* the put cell (no submission, no task execution) changes the store or the
\* references.
C15_SharedInput ==
  /\ [](/\ object_store \in {<<>>, <<"X_train", "X_test", "y_train", "y_test">>}
        /\ tasks # <<>> => object_store = <<"X_train", "X_test", "y_train", "y_test">>
        /\ \A h \in 1..Len(tasks) : tasks[h].args = <<1, 2, 3, 4>>
        /\ \A h \in 1..Len(tasks) : tasks[h].args = data_refs)
  /\ [][pc # "put" => (object_store' = object_store /\ data_refs' = data_refs)]_vars

C15_Witness ==
  /\ pc = "get"
  /\ n_models >= 2
  /\ Len(tasks) = n_models
  /\ \A h \in 1..Len(tasks) : tasks[h].status = "ready" /\ tasks[h].args = data_refs
  /\ Len(object_store) = 4

\* C17: with fair workers each runner terminates: run_sequential returns or
\* raises, run_parallel returns or raises; and a runner that returned did so
\* with all n_models jobs finished.
C17_Termination ==
  /\ (pc = "run_seq") ~> (pc = "analyze_seq" /\ (seq_ret.bound \/ error["run_seq"] # NoError))
  /\ (pc \in {"run_par", "get"}) ~>
       (pc = "analyze_par" /\ (par_ret.bound \/ error["run_par"] # NoError))
  /\ [](seq_ret.bound =>
          /\ Len(seq_calls) = n_models
          /\ \A i \in 1..Len(seq_calls) : seq_calls[i].status = "returned")
  /\ [](par_ret.bound =>
          /\ Len(tasks) = n_models
          /\ \A h \in 1..Len(tasks) : tasks[h].status = "ready")

C17_Witness ==
  /\ pc = "analyze_par"
  /\ par_ret.bound
  /\ seq_ret.bound
  /\ n_models >= 2
  /\ Len(finished) = n_models
  /\ error["run_par"] = NoError

C19_RuntimeWindow ==
  /\ pc \in {"put", "def_remote", "run_par", "get", "analyze_par", "shutdown"} => ray_up
  /\ pc \in {"def_local", "run_seq", "analyze_seq", "ray_init"} =>
       (~ray_up /\ object_store = <<>> /\ tasks = <<>> /\ ~par_ret.bound)
  /\ pc = "done" =>
       /\ ~ray_up
       /\ \A i \in 1..Len(results_ref) :
            tasks[results_ref[i]].status \notin {"pending", "running"}

\* C20: every run of the initialization cell, the first and the repeated
\* ones, ends with one freshly started runtime with an empty object store:
\* ray.init() never finds a runtime up (it would raise RuntimeError).
C20_FreshRuntime ==
  /\ [](error["ray_init"] = NoError)
  /\ [](pc = "put" => (ray_up /\ ray_session >= 1 /\ object_store = <<>>))
  /\ [][(pc \in {"ray_init", "put"} /\ pc' = "put") =>
          (ray_up' /\ ray_session' = ray_session + 1 /\ object_store' = <<>>)]_vars

C20_Witness ==
  /\ pc = "put"
  /\ ray_up
  /\ ray_session = 2
  /\ error["ray_init"] = NoError

\* C21: when job k is the first job whose executor fails, run_sequential has
\* called exactly jobs 0..k (none of k+1..N-1 is ever started), the k results
\* obtained so far are returned to nobody (no ResultSet, mse_scores is not
\* assigned by this cell); and whenever run_parallel's failure is observed
\* by the notebook, all N jobs have been dispatched.
C21_FailurePaths ==
  /\ error["run_seq"] # NoError =>
       LET k == Len(seq_calls) - 1
       IN  /\ k >= 0
           /\ k < n_models
           /\ error["run_seq"] = <<"JobExecutionFailure", 8 + 4 * k>>
           /\ (8 + 4 * k) \in failing
           /\ \A j \in 0..(k - 1) : (8 + 4 * j) \notin failing
           /\ seq_calls[k + 1].status = "raised"
           /\ \A i \in 1..k : seq_calls[i].status = "returned"
           /\ Len(seq_acc) = k
           /\ ~seq_ret.bound
           /\ mse_by # "run_seq"
  /\ error["run_par"] # NoError =>
       /\ Len(tasks) = n_models
       /\ Len(results_ref) = n_models
       /\ \A j \in 1..n_models : tasks[j].n_estimators = 8 + 4 * (j - 1)

C21_Witness ==
  /\ n_models = 3
  /\ failing = {12}
  /\ error["run_seq"] = <<"JobExecutionFailure", 12>>
  /\ Len(seq_calls) = 2
  /\ Len(seq_acc) = 1
  /\ ~seq_ret.bound
  /\ error["run_par"] = <<"JobExecutionFailure", 12>>
  /\ Len(tasks) = 3
  /\ tasks[3].status = "pending"

\* C22: the name train_and_score_model is unbound, then the local function,
\* then the remote task, and never goes back; the run_sequential cell runs,
\* and every job of it is called, only while the name is the local function;
\* the run_parallel cell runs, and every task is submitted, only while it is
\* the remote task; once the name is rebound no job of run_sequential is
\* called and run_sequential returns nothing any more.
C22_Rebinding ==
  /\ [](pc = "def_local" <=> binding = "unbound")
  /\ [](pc \in {"run_seq", "analyze_seq", "ray_init", "put", "def_remote"} <=> binding = "local")
  /\ [](pc \in {"run_par", "get", "analyze_par", "shutdown", "done"} <=> binding = "remote")
  /\ [][binding' # binding =>
          \/ (binding = "unbound" /\ binding' = "local")
          \/ (binding = "local" /\ binding' = "remote")]_vars
  /\ [][(seq_calls' # seq_calls \/ seq_ret' # seq_ret) =>
          (binding = "local" /\ binding' = "local")]_vars
  /\ [][(tasks' # tasks \/ results_ref' # results_ref \/ par_ret' # par_ret) =>
          (binding = "remote" /\ binding' = "remote")]_vars

C22_Witness ==
  /\ pc = "done"
  /\ binding = "remote"
  /\ n_models = 2
  /\ Len(seq_calls) = 2
  /\ seq_ret.bound
  /\ Len(tasks) = 2
  /\ par_ret.bound
====
